---- MODULE Spec2Model ----
(***************************************************************************)
(* Engage message cron scheduler (engageScheduleTracker): the rule         *)
(* compiler createScheduleRule, the job registry ENGAGE_SCHEDULES with     *)
(* createSchedule / updateOrRemoveSchedule, and the start-up bootstrap     *)
(* initCronJob.                                                            *)
(*                                                                         *)
(* JavaScript values are modelled as follows.  An object is a record that  *)
(* holds exactly the fields that are set, so "field f is absent" is        *)
(* f \notin DOMAIN obj.  The value undefined / null is the record          *)
(* undefined.  A call either returns or throws: see Return and Throw.      *)
(***************************************************************************)
EXTENDS Integers, Sequences, FiniteSets, Bags, TLC

VARIABLES
    store,             \* EngageMessages collection: _id -> document or undefined
    ENGAGE_SCHEDULES,  \* the registry: sequence of { id, job }
    jobs,              \* the node-schedule runtime: the bag of scheduled jobs
    pending,           \* updateOrRemoveSchedule calls suspended at await findOne
    booted,            \* initCronJob has run
    lastCall,          \* the most recent call into the tracker and its outcome
    removed,           \* ids removed with update = false and not re-created since
    lastSend,          \* the outcome of the most recent firing
    descriptor,        \* the descriptor of a call of createScheduleRule alone
    clock,             \* the current time at that call
    compiled,          \* what that call has returned or thrown
    today,             \* generateDates: the year and month of new Date()
    iter,              \* generateDates: the loop variables year and month
    monthIntervals,    \* generateDates: the list it builds
    pc                 \* generateDates: not called, in its loop, or returned

trackerVars == <<store, ENGAGE_SCHEDULES, jobs, pending, booted, lastCall,
                 removed, lastSend>>

compilerVars == <<descriptor, clock, compiled>>

builderVars == <<today, iter, monthIntervals, pc>>

vars == <<trackerVars, compilerVars, builderVars>>

----------------------------------------------------------------------------
(* Bounds of the model *)

MaxJobs == 2
MaxPending == 1
MaxYears == 2

Ids == {"m1", "m2"}

----------------------------------------------------------------------------
(* JavaScript values *)

undefined == [undefined |-> TRUE]

IsUndefined(x) == "undefined" \in DOMAIN x

Has(obj, f) == f \in DOMAIN obj

Return(v) == [tag |-> "return", value |-> v]

Throw == [tag |-> "throw", value |-> "TypeError"]

Returned(r) == r.tag = "return"

----------------------------------------------------------------------------
(* Rule compiler *)

\* The clock read by moment(undefined): the hour and minute of "now".
Clocks == {[hour |-> 0, minute |-> 0], [hour |-> 9, minute |-> 5]}

\* `${x}` of a number
Str(n) == ToString(n)

\* scheduleDate.type tested for presence in the place of truthiness
HasType(scheduleDate) == Has(scheduleDate, "type")

\* scheduleDate.type is truthy: set, and not the empty string
TruthyType(scheduleDate) == Has(scheduleDate, "type") /\ scheduleDate.type # ""

\* moment(scheduleDate.time): the given time, or the current time when absent
Moment(scheduleDate, now) ==
    IF Has(scheduleDate, "time") THEN scheduleDate.time ELSE now

\* x || '*' for a number x
NumOrStar(n) == IF n # 0 THEN Str(n) ELSE "*"

\* A field that is never read: always the wildcard
Star(scheduleDate, f) == "*"

\* scheduleDate.f || '*' for a numeric field f
FieldOrStar(scheduleDate, f) ==
    IF Has(scheduleDate, f) THEN NumOrStar(scheduleDate[f]) ELSE "*"

\* The compiler without its day-of-week branch: dayOfWeek stays '*'
createScheduleRuleNoWeekday(scheduleDate, now) ==
    IF IsUndefined(scheduleDate)
       \/ (~TruthyType(scheduleDate) /\ ~Has(scheduleDate, "time"))
    THEN Return("* 45 23 * ")
    ELSE
      LET time   == Moment(scheduleDate, now)
          hour   == NumOrStar(time.hour)
          minute == NumOrStar(time.minute)
          month  == FieldOrStar(scheduleDate, "month")
      IN  IF ~Has(scheduleDate, "type")
          THEN Throw
          ELSE
            LET type == scheduleDate.type
                day  == IF type = "month" \/ type = "year"
                        THEN FieldOrStar(scheduleDate, "day")
                        ELSE "*"
            IN  Return(minute \o " " \o hour \o " " \o day \o " " \o month
                       \o " *")

createScheduleRule(scheduleDate, now) ==
    IF IsUndefined(scheduleDate)
       \/ (~TruthyType(scheduleDate) /\ ~Has(scheduleDate, "time"))
    THEN Return("* 45 23 * ")
    ELSE
      LET time   == Moment(scheduleDate, now)
          hour   == NumOrStar(time.hour)
          minute == NumOrStar(time.minute)
          month  == FieldOrStar(scheduleDate, "month")
      IN  IF ~Has(scheduleDate, "type")
          THEN Throw   \* scheduleDate.type.length of undefined
          ELSE
            LET type      == scheduleDate.type
                dayOfWeek == IF Len(type) = 1 THEN type ELSE "*"
                day       == IF type = "month" \/ type = "year"
                             THEN FieldOrStar(scheduleDate, "day")
                             ELSE "*"
            IN  Return(minute \o " " \o hour \o " " \o day \o " " \o month
                       \o " " \o dayOfWeek)

\* An optional field: absent, or present with a value of S
Optional(S) == {<<>>} \cup {<<v>> : v \in S}

Field(f, o) == IF o = <<>> THEN <<>> ELSE f :> o[1]

\* The object { type, time, day, month } with the fields that are present
ScheduleDate(type, time, day, month) ==
    Field("type", type) @@ Field("time", time) @@ Field("day", day)
        @@ Field("month", month)

Types == {"", "3", "10", "month", "year", "week"}

Times == {[hour |-> h, minute |-> m] : h \in {0, 9}, m \in {0, 30}}

Days == {0, 15}

Months == {0, 6}

\* Every descriptor createScheduleRule is called with: undefined, or an object
\* with any combination of type, time, day and month present or absent
AllDescriptors ==
    {undefined} \cup
    { ScheduleDate(t, ti, d, m) :
        t \in Optional(Types), ti \in Optional(Times),
        d \in Optional(Days), m \in Optional(Months) }

----------------------------------------------------------------------------
(* Message store (EngageMessages) *)

Kinds == {"auto", "visitorAuto", "manual"}

t0930 == [hour |-> 9, minute |-> 30]

\* The recurrence descriptors of the messages passed to createSchedule
Descriptors ==
    { undefined,
      [type |-> "3", time |-> t0930],
      [time |-> t0930] }

\* The recurrence descriptors of the stored messages
StoredDescriptors ==
    { [type |-> "3", time |-> t0930],
      [time |-> t0930] }

Document(id, kind, isLive, scheduleDate) ==
    [_id |-> id, kind |-> kind, isLive |-> isLive, scheduleDate |-> scheduleDate]

\* Any stored message
Documents(id) ==
    { Document(id, k, l, d) : k \in Kinds, l \in BOOLEAN, d \in StoredDescriptors }

\* A stored message that is live and automatic
LiveDocuments(id) ==
    { Document(id, "auto", TRUE, d) : d \in StoredDescriptors }

\* A message as a resolver passes it to createSchedule
Messages(id) ==
    { Document(id, "auto", TRUE, d) : d \in Descriptors }

\* EngageMessages.findOne({ _id })
findOne(id) == store[id]

\* EngageMessages.find({ kind: { $in: ['auto', 'visitorAuto'] }, isLive: true })
IsAutoLive(doc) ==
    /\ ~IsUndefined(doc)
    /\ doc.kind \in {"auto", "visitorAuto"}
    /\ doc.isLive

findAutoLive == {id \in Ids : IsAutoLive(store[id])}

----------------------------------------------------------------------------
(* Job registry *)

Count(reg, id) == Cardinality({k \in 1..Len(reg) : reg[k].id = id})

\* The job object that schedule.scheduleJob(rule, () => { send(message); })
\* builds: its rule and the message its callback has captured
Job(rule, message) == [rule |-> rule, message |-> message]

\* schedule.scheduleJob: the job joins the runtime's scheduled jobs
scheduleJob(js, job) == js (+) SetToBag({job})

\* A cancel that does nothing: the job stays scheduled
keepScheduled(js, job) == js

\* job.cancel(): the job leaves the runtime's scheduled jobs
cancel(js, job) == js (-) SetToBag({job})

\* findIndex whose -1 is not told apart: index -1 is the last entry
findIndexOrLast(reg, id) ==
    IF \E k \in 1..Len(reg) : reg[k].id = id
    THEN CHOOSE k \in 1..Len(reg) :
            /\ reg[k].id = id
            /\ \A l \in 1..(k - 1) : reg[l].id # id
    ELSE Len(reg)

\* ENGAGE_SCHEDULES.findIndex(engage => engage.id === _id); 0 stands for -1
findIndex(reg, id) ==
    IF \E k \in 1..Len(reg) : reg[k].id = id
    THEN CHOOSE k \in 1..Len(reg) :
            /\ reg[k].id = id
            /\ \A l \in 1..(k - 1) : reg[l].id # id
    ELSE 0

\* slice in the place of splice: the registry keeps the entry
slice(reg, k) == reg

\* ENGAGE_SCHEDULES.splice(selectedIndex, 1)
splice(reg, k) == SubSeq(reg, 1, k - 1) \o SubSeq(reg, k + 1, Len(reg))

\* ENGAGE_SCHEDULES.push({ id: message._id, job })
push(reg, id, job) == Append(reg, [id |-> id, job |-> job])

\* A createSchedule that returns, having done nothing, when it is given no
\* message
createScheduleGuarded(reg, js, message, now) ==
    IF IsUndefined(message)
    THEN [tag |-> "return", reg |-> reg, jobs |-> js]
    ELSE
      LET rule == createScheduleRule(message.scheduleDate, now)
      IN  IF ~Returned(rule)
          THEN [tag |-> "throw", reg |-> reg, jobs |-> js]
          ELSE LET job == Job(rule.value, message)
               IN  [tag  |-> "return",
                    reg  |-> push(reg, message._id, job),
                    jobs |-> scheduleJob(js, job)]

\* createSchedule(message) run on registry reg and runtime js: the outcome
\* and the registry and runtime it leaves.
createSchedule(reg, js, message, now) ==
    IF IsUndefined(message)
    THEN [tag |-> "throw", reg |-> reg, jobs |-> js]  \* const { scheduleDate } = undefined
    ELSE
      LET rule == createScheduleRule(message.scheduleDate, now)
      IN  IF ~Returned(rule)
          THEN [tag |-> "throw", reg |-> reg, jobs |-> js]
          ELSE LET job == Job(rule.value, message)
               IN  [tag  |-> "return",
                    reg  |-> push(reg, message._id, job),
                    jobs |-> scheduleJob(js, job)]

\* for (let message of messages) { createSchedule(message); }
\* The first createSchedule that throws ends the loop.
RECURSIVE bootLoop(_, _, _, _)
bootLoop(reg, js, messages, now) ==
    IF messages = <<>>
    THEN [tag |-> "return", reg |-> reg, jobs |-> js, called |-> {}]
    ELSE LET m == Head(messages)
             r == createSchedule(reg, js, m, now)
         IN  IF r.tag = "throw"
             THEN [tag |-> "throw", reg |-> r.reg, jobs |-> r.jobs,
                   called |-> {m._id}]
             ELSE LET rest == bootLoop(r.reg, r.jobs, Tail(messages), now)
                  IN  [rest EXCEPT !.called = @ \cup {m._id}]

\* The orders in which find can return the documents of the ids in S.
Orders(S) ==
    {q \in [1..Cardinality(S) -> S] : \A a, b \in DOMAIN q : q[a] = q[b] => a = b}

\* A call into the tracker: what was called, with what, what it found (the
\* entry for findIndex, the message for the re-fetch) and how it ended.
\* after: the call came right after a createSchedule of the same id that
\* returned.
Call(op, id, update, found, tag, after) ==
    [op |-> op, id |-> id, update |-> update, found |-> found, tag |-> tag,
     after |-> after]


----------------------------------------------------------------------------
(* Initial state: the module has just been loaded *)

\* The stores whose messages are all live and automatic
LiveStores ==
    {f \in [Ids -> UNION {LiveDocuments(i) \cup {undefined} : i \in Ids}] :
        \A i \in Ids : f[i] \in LiveDocuments(i) \cup {undefined}}

\* The stores with messages of any kind, live or not
Stores ==
    {f \in [Ids -> UNION {Documents(i) \cup {undefined} : i \in Ids}] :
        \A i \in Ids : f[i] \in Documents(i) \cup {undefined}}

Loaded ==
    /\ ENGAGE_SCHEDULES = <<>>
    /\ jobs = EmptyBag
    /\ pending = [i \in Ids |-> 0]
    /\ booted = FALSE
    /\ lastCall = Call("none", "", FALSE, FALSE, "return", FALSE)
    /\ removed = {}
    /\ lastSend = "none"

\* createScheduleRule has not been called on its own
NotCalled == [tag |-> "none", value |-> ""]

CompilerIdle ==
    /\ descriptor = undefined
    /\ clock = [hour |-> 0, minute |-> 0]
    /\ compiled = NotCalled

START_DATE == [year |-> 2017, month |-> 0]

\* generateDates has not been called
BuilderIdle ==
    /\ today = START_DATE
    /\ iter = START_DATE
    /\ monthIntervals = <<>>
    /\ pc = "idle"

Init ==
    /\ store \in LiveStores
    /\ Loaded
    /\ CompilerIdle
    /\ BuilderIdle

InitBoot ==
    /\ store \in Stores
    /\ Loaded
    /\ CompilerIdle
    /\ BuilderIdle

----------------------------------------------------------------------------
(* Actions *)

\* initCronJob, from the point where find has answered
InitCronJob ==
    /\ ~booted
    /\ BagCardinality(jobs) + Cardinality(findAutoLive) <= MaxJobs
    /\ \E order \in Orders(findAutoLive), now \in Clocks :
         LET messages == [k \in DOMAIN order |-> store[order[k]]]
             r        == bootLoop(ENGAGE_SCHEDULES, jobs, messages, now)
         IN  /\ ENGAGE_SCHEDULES' = r.reg
             /\ jobs' = r.jobs
             /\ lastCall' = Call("initCronJob", "", FALSE, FALSE, r.tag, FALSE)
             /\ removed' = removed \ r.called
    /\ booted' = TRUE
    /\ UNCHANGED <<store, pending, lastSend>>
    /\ UNCHANGED compilerVars
    /\ UNCHANGED builderVars

\* createSchedule(message), called by a resolver
CreateSchedule(message) ==
    /\ BagCardinality(jobs) < MaxJobs
    /\ \E now \in Clocks :
         LET r == createSchedule(ENGAGE_SCHEDULES, jobs, message, now)
         IN  /\ ENGAGE_SCHEDULES' = r.reg
             /\ jobs' = r.jobs
             /\ lastCall' = Call("createSchedule", message._id, FALSE,
                                 FALSE, r.tag, FALSE)
    /\ removed' = removed \ {message._id}
    /\ UNCHANGED <<store, pending, booted, lastSend>>
    /\ UNCHANGED compilerVars
    /\ UNCHANGED builderVars

\* updateOrRemoveSchedule({ _id }, update), up to its return or its await
UpdateOrRemoveSchedule(_id, update) ==
    LET selectedIndex == findIndex(ENGAGE_SCHEDULES, _id)
    IN  /\ IF selectedIndex = 0
           THEN UNCHANGED <<ENGAGE_SCHEDULES, jobs, pending>>
           ELSE /\ jobs' = cancel(jobs, ENGAGE_SCHEDULES[selectedIndex].job)
                /\ ENGAGE_SCHEDULES' = splice(ENGAGE_SCHEDULES, selectedIndex)
                /\ IF ~update
                   THEN UNCHANGED pending
                   ELSE /\ pending[_id] < MaxPending
                        /\ pending' = [pending EXCEPT ![_id] = @ + 1]
        /\ lastCall' = Call("updateOrRemoveSchedule", _id, update,
                            selectedIndex # 0, "return",
                            /\ lastCall.op = "createSchedule"
                            /\ lastCall.id = _id
                            /\ lastCall.tag = "return")
        /\ removed' = IF update THEN removed ELSE removed \cup {_id}
        /\ UNCHANGED <<store, booted, lastSend>>
        /\ UNCHANGED compilerVars
        /\ UNCHANGED builderVars

\* updateOrRemoveSchedule after await findOne: createSchedule(message)
ResumeUpdate(_id) ==
    /\ pending[_id] > 0
    /\ BagCardinality(jobs) < MaxJobs
    /\ \E now \in Clocks :
         LET message == findOne(_id)
             r       == createSchedule(ENGAGE_SCHEDULES, jobs, message, now)
         IN  /\ ENGAGE_SCHEDULES' = r.reg
             /\ jobs' = r.jobs
             /\ lastCall' = Call("resume", _id, TRUE, ~IsUndefined(message),
                                 r.tag,
                                 /\ lastCall.op = "updateOrRemoveSchedule"
                                 /\ lastCall.id = _id
                                 /\ lastCall.after)
    /\ pending' = [pending EXCEPT ![_id] = @ - 1]
    /\ removed' = removed \ {_id}
    /\ UNCHANGED <<store, booted, lastSend>>
    /\ UNCHANGED compilerVars
    /\ UNCHANGED builderVars

\* send(message): asynchronous; it completes or it fails, out of the
\* callback that started it
send(message) == {"sent", "failed"}

\* A firing that cancels its job when send fails
FireCancelsOnFailure(job) ==
    /\ BagIn(job, jobs)
    /\ \E outcome \in send(job.message) :
         /\ lastSend' = outcome
         /\ jobs' = IF outcome = "failed" THEN cancel(jobs, job) ELSE jobs
    /\ UNCHANGED <<store, ENGAGE_SCHEDULES, pending, booted, lastCall, removed>>
    /\ UNCHANGED compilerVars
    /\ UNCHANGED builderVars

\* A scheduled job fires: () => { send(message); }
Fire(job) ==
    /\ BagIn(job, jobs)
    /\ lastSend' \in send(job.message)
    /\ UNCHANGED <<store, ENGAGE_SCHEDULES, jobs, pending, booted, lastCall,
                   removed>>
    /\ UNCHANGED compilerVars
    /\ UNCHANGED builderVars

\* The store changes under the tracker: a message is edited or deleted
StoreWrite(id, doc) ==
    /\ store[id] # doc
    /\ store' = [store EXCEPT ![id] = doc]
    /\ UNCHANGED <<ENGAGE_SCHEDULES, jobs, pending, booted, lastCall, removed,
                   lastSend>>
    /\ UNCHANGED compilerVars
    /\ UNCHANGED builderVars

Next ==
    \/ InitCronJob
    \/ \E id \in Ids : \E message \in Messages(id) : CreateSchedule(message)
    \/ \E id \in Ids, update \in BOOLEAN : UpdateOrRemoveSchedule(id, update)
    \/ \E id \in Ids : ResumeUpdate(id)
    \/ \E job \in BagToSet(jobs) : Fire(job)
    \/ \E id \in Ids : \E doc \in LiveDocuments(id) \cup {undefined} :
          StoreWrite(id, doc)

Spec == Init /\ [][Next]_vars

\* Process start alone: the bootstrap over any store, and the firings after it
NextBoot ==
    \/ InitCronJob
    \/ \E job \in BagToSet(jobs) : Fire(job)

SpecBoot == InitBoot /\ [][NextBoot]_vars

\* The registries that createSchedule builds when it is called at most once
\* per id, with the jobs it schedules: at most one entry per id
OneEntryPerId ==
    UNION { UNION { { bootLoop(<<>>, EmptyBag,
                               [k \in DOMAIN order |-> ms[order[k]]],
                               [hour |-> 0, minute |-> 0]) :
                      ms \in {f \in [S -> UNION {Messages(i) : i \in S}] :
                                 \A i \in S : f[i] \in Messages(i)} } :
                    order \in Orders(S) } :
            S \in SUBSET Ids }

\* Calls of updateOrRemoveSchedule alone, interleaved at the re-fetch, on a
\* registry with at most one entry per id
InitUpdates ==
    /\ store \in LiveStores
    /\ \E r \in OneEntryPerId :
         /\ r.tag = "return"
         /\ ENGAGE_SCHEDULES = r.reg
         /\ jobs = r.jobs
    /\ pending = [i \in Ids |-> 0]
    /\ booted = TRUE
    /\ lastCall = Call("none", "", FALSE, FALSE, "return", FALSE)
    /\ removed = {}
    /\ lastSend = "none"
    /\ CompilerIdle
    /\ BuilderIdle

NextUpdates ==
    \/ \E id \in Ids, update \in BOOLEAN : UpdateOrRemoveSchedule(id, update)
    \/ \E id \in Ids : ResumeUpdate(id)
    \/ \E id \in Ids : \E doc \in LiveDocuments(id) \cup {undefined} :
          StoreWrite(id, doc)

SpecUpdates == InitUpdates /\ [][NextUpdates]_vars

----------------------------------------------------------------------------
(* The rule compiler alone: createScheduleRule called on any descriptor *)

InitCompiler ==
    /\ store = [i \in Ids |-> undefined]
    /\ Loaded
    /\ descriptor \in AllDescriptors
    /\ clock \in Clocks
    /\ compiled = NotCalled
    /\ BuilderIdle

\* createScheduleRule(scheduleDate)
Compile ==
    /\ compiled = NotCalled
    /\ compiled' = createScheduleRule(descriptor, clock)
    /\ UNCHANGED <<descriptor, clock, trackerVars>>
    /\ UNCHANGED builderVars

\* The next call, with another descriptor at another time
NextCall ==
    /\ compiled # NotCalled
    /\ descriptor' \in AllDescriptors
    /\ clock' \in Clocks
    /\ compiled' = NotCalled
    /\ UNCHANGED trackerVars
    /\ UNCHANGED builderVars

NextCompiler == Compile \/ NextCall

SpecCompiler == InitCompiler /\ [][NextCompiler]_vars

----------------------------------------------------------------------------
(* The month activity builder: getDaysInMonth and generateDates *)

IsLeapYear(y) == (y % 4 = 0 /\ y % 100 # 0) \/ y % 400 = 0

\* The calendar: the number of days of month m (0..11) of year y
DaysOfMonth(y, m) ==
    IF m = 1 THEN (IF IsLeapYear(y) THEN 29 ELSE 28)
    ELSE IF m \in {3, 5, 8, 10} THEN 30
    ELSE 31

\* new Date(y, m, d): a month or a day out of range carries into the
\* neighbouring year or month; day 0 is the last day of the month before
RECURSIVE Date(_, _, _)
Date(y, m, d) ==
    IF m > 11 THEN Date(y + 1, m - 12, d)
    ELSE IF m < 0 THEN Date(y - 1, m + 12, d)
    ELSE IF d < 1
         THEN IF m = 0
              THEN Date(y - 1, 11, d + DaysOfMonth(y - 1, 11))
              ELSE Date(y, m - 1, d + DaysOfMonth(y, m - 1))
    ELSE IF d > DaysOfMonth(y, m) THEN Date(y, m + 1, d - DaysOfMonth(y, m))
    ELSE [year |-> y, month |-> m, date |-> d]

\* getDaysInMonth(year, month): new Date(year, month, 0).getDate()
getDaysInMonth(year, month) == Date(year, month, 0).date

\* The values of new Date(): any month of START_DATE's year and of the
\* MaxYears years after it
Nows ==
    {[year |-> y, month |-> m] :
        y \in START_DATE.year..(START_DATE.year + MaxYears), m \in 0..11}

InitDates ==
    /\ store = [i \in Ids |-> undefined]
    /\ Loaded
    /\ CompilerIdle
    /\ today \in Nows
    /\ iter = START_DATE
    /\ monthIntervals = <<>>
    /\ pc = "idle"

\* generateDates is called: now is read, the list is empty, the loop starts
GenerateDates ==
    /\ pc = "idle"
    /\ iter' = START_DATE
    /\ monthIntervals' = <<>>
    /\ pc' = "loop"
    /\ UNCHANGED <<today, trackerVars, compilerVars>>

\* year < endYear || (year === endYear && month <= endMonth)
LoopCondition ==
    \/ iter.year < today.year
    \/ (iter.year = today.year /\ iter.month <= today.month)

\* One round of the loop: the push, the wrap of the month, then month++
LoopBody ==
    /\ pc = "loop"
    /\ LoopCondition
    /\ LET year  == iter.year
           month == iter.month
           entry == [yearMonth |-> [year |-> year, month |-> month],
                     interval  |->
                       [start |-> Date(year, month, 1),
                        end   |-> Date(year, month,
                                       getDaysInMonth(year, month))]]
           wrap  == (month + 1) % 12 = 0
       IN  /\ monthIntervals' = Append(monthIntervals, entry)
           /\ iter' = [year  |-> IF wrap THEN year + 1 ELSE year,
                       month |-> (IF wrap THEN 0 ELSE month) + 1]
    /\ UNCHANGED <<today, pc, trackerVars, compilerVars>>

\* The loop condition fails: return monthIntervals
ReturnDates ==
    /\ pc = "loop"
    /\ ~LoopCondition
    /\ pc' = "done"
    /\ UNCHANGED <<today, iter, monthIntervals, trackerVars, compilerVars>>

NextDates == GenerateDates \/ LoopBody \/ ReturnDates

SpecDates == InitDates /\ [][NextDates]_vars

----------------------------------------------------------------------------
(* Properties of the job registry *)

\* The entry that findIndex selects: the first one of the id
First(reg, id) ==
    CHOOSE k \in 1..Len(reg) :
        reg[k].id = id /\ \A l \in 1..(k - 1) : reg[l].id # id

\* reg2 is reg without its k-th entry
Without(reg, k, reg2) ==
    /\ Len(reg2) = Len(reg) - 1
    /\ \A l \in 1..Len(reg2) : reg2[l] = IF l < k THEN reg[l] ELSE reg[l + 1]

\* js2 is js with one copy of job less, and nothing else changed
Cancelled(js, job, js2) ==
    /\ CopiesIn(job, js2) = CopiesIn(job, js) - 1
    /\ \A j \in BagToSet(js) \cup BagToSet(js2) :
           j # job => CopiesIn(j, js2) = CopiesIn(j, js)

\* C1: in every reachable state the registry holds at most one entry per
\* message id.
C1_AtMostOneEntryPerId ==
    \A id \in Ids : Count(ENGAGE_SCHEDULES, id) <= 1

\* C2: when createSchedule(msg) is followed by updateOrRemoveSchedule({_id},
\* true) and the message is still in the store at the re-fetch, then once the
\* update has finished the registry holds exactly one entry for the id, and
\* its job's rule is the one compiled from the scheduleDate the store holds.
C2_UpdateUsesRefetchedRule ==
    [][\A id \in Ids :
         ( /\ lastCall.op = "updateOrRemoveSchedule"
           /\ lastCall.id = id
           /\ lastCall.after
           /\ ResumeUpdate(id)
           /\ ~IsUndefined(store[id]) )
         => /\ Count(ENGAGE_SCHEDULES', id) = 1
            /\ \E now \in Clocks :
                 LET rule == createScheduleRule(store[id].scheduleDate, now)
                 IN  /\ Returned(rule)
                     /\ ENGAGE_SCHEDULES'[First(ENGAGE_SCHEDULES', id)].job.rule
                          = rule.value
                     /\ BagIn(ENGAGE_SCHEDULES'[First(ENGAGE_SCHEDULES', id)].job,
                              jobs')
      ]_vars

\* C3: an updateOrRemoveSchedule({_id}, update) that finds an entry for _id
\* cancels that entry's job and removes that entry, whatever update is; when
\* update is false nothing else changes: no job is created, the store is not
\* read, every other entry and every other job stay as they were.
C3_FoundEntryCancelledAndRemoved ==
    [][\A id \in Ids, update \in BOOLEAN :
         ( /\ UpdateOrRemoveSchedule(id, update)
           /\ Count(ENGAGE_SCHEDULES, id) > 0 )
         => LET k == First(ENGAGE_SCHEDULES, id)
            IN  /\ Cancelled(jobs, ENGAGE_SCHEDULES[k].job, jobs')
                /\ Without(ENGAGE_SCHEDULES, k, ENGAGE_SCHEDULES')
                /\ ~update => /\ pending' = pending
                              /\ store' = store
                              /\ BagCardinality(jobs') = BagCardinality(jobs) - 1
      ]_vars

\* A removal has found and removed an entry, and another entry is still there.
C3_Witness ==
    /\ lastCall.op = "updateOrRemoveSchedule"
    /\ lastCall.found
    /\ ~lastCall.update
    /\ Count(ENGAGE_SCHEDULES, lastCall.id) = 0
    /\ Len(ENGAGE_SCHEDULES) > 0
    /\ BagCardinality(jobs) = Len(ENGAGE_SCHEDULES)

\* C4: updateOrRemoveSchedule({_id}, update) with an id that has no entry
\* returns without an error and changes nothing, for either value of update:
\* no job cancelled or created, no store read, the registry as it was.
C4_UnknownIdIsNoOp ==
    [][\A id \in Ids, update \in BOOLEAN :
         ( /\ UpdateOrRemoveSchedule(id, update)
           /\ Count(ENGAGE_SCHEDULES, id) = 0 )
         => /\ lastCall'.tag = "return"
            /\ UNCHANGED <<ENGAGE_SCHEDULES, jobs, pending, store>>
      ]_vars

\* A call with update = true found no entry while the registry held one of
\* another id.
C4_Witness ==
    /\ lastCall.op = "updateOrRemoveSchedule"
    /\ ~lastCall.found
    /\ lastCall.update
    /\ lastCall.tag = "return"
    /\ Len(ENGAGE_SCHEDULES) > 0

\* C5: a second updateOrRemoveSchedule({_id}, false) right after a first one
\* for the same id changes neither the registry nor the scheduled jobs.
C5_RemovalIdempotent ==
    [][\A id \in Ids :
         ( /\ lastCall.op = "updateOrRemoveSchedule"
           /\ lastCall.id = id
           /\ ~lastCall.update
           /\ UpdateOrRemoveSchedule(id, FALSE) )
         => UNCHANGED <<ENGAGE_SCHEDULES, jobs>>
      ]_vars

\* C6: once updateOrRemoveSchedule({_id}, false) has returned, no send is
\* invoked for a message of that id until createSchedule is called for it.
C6_NoSendAfterRemoval ==
    [][\A job \in BagToSet(jobs) :
         Fire(job) => job.message._id \notin removed
      ]_vars

\* C7: a createSchedule(message) that returns while the registry already
\* holds an entry for message._id cancels the previous job and leaves a
\* single entry for that id.
C7_CreateReplaces ==
    [][\A id \in Ids : \A message \in Messages(id) :
         ( /\ CreateSchedule(message)
           /\ lastCall'.tag = "return"
           /\ Count(ENGAGE_SCHEDULES, id) > 0 )
         => /\ Count(ENGAGE_SCHEDULES', id) = 1
            /\ BagCardinality(jobs') = BagCardinality(jobs)
      ]_vars

\* C8: the bootstrap run on an empty registry leaves exactly one entry, and
\* one scheduled job, for every stored message that is auto or visitorAuto
\* and live, and no entry for any other message.
C8_BootRegistersEveryLiveMessage ==
    booted =>
      /\ \A id \in Ids :
           Count(ENGAGE_SCHEDULES, id) = IF IsAutoLive(store[id]) THEN 1 ELSE 0
      /\ BagCardinality(jobs) = Len(ENGAGE_SCHEDULES)

\* C9: a firing whose send fails leaves the registry and the scheduled jobs
\* as they were, so the job that fired and every other job can fire again.
C9_FailedSendLeavesRegistry ==
    [][(lastSend' = "failed" /\ lastSend # "failed")
         => /\ UNCHANGED <<ENGAGE_SCHEDULES, jobs>>
            /\ \A job \in BagToSet(jobs) : BagIn(job, jobs')
      ]_vars

\* A send has failed and two jobs are still registered and scheduled.
C9_Witness ==
    /\ lastSend = "failed"
    /\ Len(ENGAGE_SCHEDULES) = 2
    /\ BagCardinality(jobs) = 2

\* C17: a removal is never lost: when updateOrRemoveSchedule({_id}, false)
\* is called while an earlier updateOrRemoveSchedule({_id}, true), which
\* took the only entry of _id, is suspended at its re-fetch, then once both
\* calls have finished the registry holds no entry for _id and no job of
\* _id is scheduled.
C17_RemovalNotLost ==
    [][\A id \in Ids :
         ( /\ lastCall.op = "updateOrRemoveSchedule"
           /\ lastCall.id = id
           /\ ~lastCall.update
           /\ ~lastCall.found
           /\ pending[id] > 0
           /\ ResumeUpdate(id)
           /\ pending'[id] = 0 )
         => /\ Count(ENGAGE_SCHEDULES', id) = 0
            /\ \A job \in BagToSet(jobs') : job.message._id # id
      ]_vars

\* C18: calls of updateOrRemoveSchedule, interleaved only at the awaited
\* re-fetch, with either flag and any ids, started from a registry with at
\* most one entry per id, keep at most one entry per id in every state.
C18_UpdatesKeepOneEntryPerId ==
    \A k, l \in 1..Len(ENGAGE_SCHEDULES) :
        ENGAGE_SCHEDULES[k].id = ENGAGE_SCHEDULES[l].id => k = l

\* An update has resumed and registered its new entry while an update of
\* another id is still suspended at its re-fetch.
C18_Witness ==
    /\ lastCall.op = "resume"
    /\ lastCall.tag = "return"
    /\ Count(ENGAGE_SCHEDULES, lastCall.id) = 1
    /\ \E id \in Ids : id # lastCall.id /\ pending[id] > 0

\* C19: when updateOrRemoveSchedule({_id}, true) finds an entry, the old job
\* is cancelled and the entry removed before the re-fetch; when the store
\* then returns no message, no job is scheduled, no entry is appended and
\* the call ends with an error.
C19_MissingMessageAtRefetch ==
    [][\A id \in Ids :
         /\ ( /\ UpdateOrRemoveSchedule(id, TRUE)
              /\ Count(ENGAGE_SCHEDULES, id) > 0 )
            => LET k == First(ENGAGE_SCHEDULES, id)
               IN  /\ Cancelled(jobs, ENGAGE_SCHEDULES[k].job, jobs')
                   /\ Without(ENGAGE_SCHEDULES, k, ENGAGE_SCHEDULES')
                   /\ pending'[id] = pending[id] + 1
         /\ ( /\ ResumeUpdate(id)
              /\ IsUndefined(store[id]) )
            => /\ lastCall'.tag = "throw"
               /\ UNCHANGED <<ENGAGE_SCHEDULES, jobs>>
      ]_vars

\* An update found no message at its re-fetch and ended with an error: its
\* id has no entry left, while another entry and its job are still there.
C19_Witness ==
    /\ lastCall.op = "resume"
    /\ ~lastCall.found
    /\ lastCall.tag = "throw"
    /\ Count(ENGAGE_SCHEDULES, lastCall.id) = 0
    /\ \A job \in BagToSet(jobs) : job.message._id # lastCall.id
    /\ Len(ENGAGE_SCHEDULES) = 1

\* The entries of the registry that reference job
Referencing(reg, job) == {k \in 1..Len(reg) : reg[k].job = job}

\* C20: the registry and the scheduled jobs coincide: every job that is
\* scheduled and not cancelled is referenced by exactly one entry, and every
\* entry references a job that is still scheduled.
C20_RegistryMatchesJobs ==
    /\ BagCardinality(jobs) = Len(ENGAGE_SCHEDULES)
    /\ \A job \in BagToSet(jobs) :
          CopiesIn(job, jobs) = Cardinality(Referencing(ENGAGE_SCHEDULES, job))
    /\ \A k \in 1..Len(ENGAGE_SCHEDULES) :
          BagIn(ENGAGE_SCHEDULES[k].job, jobs)

\* One job has been cancelled and its entry removed while another entry and
\* its job stay.
C20_Witness ==
    /\ lastCall.op = "updateOrRemoveSchedule"
    /\ lastCall.found
    /\ Len(ENGAGE_SCHEDULES) = 1
    /\ BagCardinality(jobs) = 1
    /\ BagIn(ENGAGE_SCHEDULES[1].job, jobs)

----------------------------------------------------------------------------
(* Properties of the rule compiler *)

\* C10: createScheduleRule is total: whatever the descriptor, the call
\* returns a string and throws nothing.
C10_CompilerTotal ==
    compiled # NotCalled
      => compiled.tag = "return" /\ Len(compiled.value) > 0

\* The characters of s that are spaces, before position i
SpacesBefore(s, i) == Cardinality({j \in 1..(i - 1) : SubSeq(s, j, j) = " "})

\* s.split(' ')[k - 1]: the k-th field of a cron expression; "" when empty
FieldOf(s, k) ==
    LET idx == {i \in 1..Len(s) :
                  SubSeq(s, i, i) # " " /\ SpacesBefore(s, i) = k - 1}
    IN  IF idx = {}
        THEN ""
        ELSE SubSeq(s, CHOOSE i \in idx : \A j \in idx : i <= j,
                       CHOOSE i \in idx : \A j \in idx : j <= i)

\* The descriptor's type is set: present and not the empty string
TypeSet(d) == ~IsUndefined(d) /\ Has(d, "type") /\ d.type # ""

\* The descriptor's time is set
TimeSet(d) == ~IsUndefined(d) /\ Has(d, "time")

\* C11: a descriptor that has only time = T, with T.hour() = h > 0 and
\* T.minute() = m > 0 and no type, month or day, compiles to "m h * * *".
C11_TimeOnlyRule ==
    ( /\ compiled # NotCalled
      /\ DOMAIN descriptor = {"time"}
      /\ descriptor.time.hour > 0
      /\ descriptor.time.minute > 0 )
    => compiled = Return(Str(descriptor.time.minute) \o " "
                         \o Str(descriptor.time.hour) \o " * * *")

\* C12: zero coercion: for every descriptor with time set, an hour of 0
\* gives '*' in the hour field and a minute of 0 gives '*' in the minute
\* field; a descriptor with time 00:00 and no type and no month compiles
\* to "* * * * *".
C12_ZeroCoercion ==
    (compiled # NotCalled /\ TimeSet(descriptor))
    => /\ Returned(compiled)
       /\ descriptor.time.hour = 0 => FieldOf(compiled.value, 2) = "*"
       /\ descriptor.time.minute = 0 => FieldOf(compiled.value, 1) = "*"
       /\ ( /\ descriptor.time = [hour |-> 0, minute |-> 0]
            /\ ~Has(descriptor, "type")
            /\ ~Has(descriptor, "month") )
          => compiled.value = "* * * * *"

\* C13: for every descriptor with type set and time absent, the hour field
\* and the minute field are both '*', whatever the moment of the call.
C13_NoTimeIsWildcard ==
    (compiled # NotCalled /\ TypeSet(descriptor) /\ ~TimeSet(descriptor))
    => /\ Returned(compiled)
       /\ FieldOf(compiled.value, 1) = "*"
       /\ FieldOf(compiled.value, 2) = "*"

\* C14: createScheduleRule returns the fixed string "* 45 23 * " when the
\* descriptor is absent or has neither type nor time set, and for no other
\* descriptor.
C14_FallbackExactly ==
    compiled # NotCalled
    => ( compiled = Return("* 45 23 * ")
         <=> ( \/ IsUndefined(descriptor)
               \/ (~TypeSet(descriptor) /\ ~TimeSet(descriptor)) ) )

\* The fallback was returned for a descriptor that exists and has a day and
\* a month, but neither type nor time.
C14_Witness ==
    /\ compiled = Return("* 45 23 * ")
    /\ ~IsUndefined(descriptor)
    /\ Has(descriptor, "day")
    /\ Has(descriptor, "month")

\* C15: when type is a string of exactly one character, the day-of-week
\* (fifth) field is that character and the day-of-month (third) field is
\* '*'; when type has any other length the day-of-week field is '*'.
C15_DayOfWeekField ==
    (compiled # NotCalled /\ TypeSet(descriptor))
    => /\ Returned(compiled)
       /\ IF Len(descriptor.type) = 1
          THEN /\ FieldOf(compiled.value, 5) = descriptor.type
               /\ FieldOf(compiled.value, 3) = "*"
          ELSE FieldOf(compiled.value, 5) = "*"

\* A one-character type was compiled for a descriptor that also has a day.
C15_Witness ==
    /\ Returned(compiled)
    /\ TypeSet(descriptor)
    /\ descriptor.type = "3"
    /\ Has(descriptor, "day")
    /\ descriptor.day = 15
    /\ FieldOf(compiled.value, 5) = "3"

\* descriptor.day || '*': 0 is no day of a month and counts as absent
DayOrStar(d) == IF Has(d, "day") /\ d.day # 0 THEN Str(d.day) ELSE "*"

\* C16: when type is "month" or "year", the day-of-month (third) field is
\* descriptor.day, or '*' when day is absent, and the day-of-week field is
\* '*'; for every other type the day-of-month field is '*' even when
\* descriptor.day is set.
C16_DayOfMonthField ==
    (compiled # NotCalled /\ TypeSet(descriptor))
    => /\ Returned(compiled)
       /\ IF descriptor.type \in {"month", "year"}
          THEN /\ FieldOf(compiled.value, 3) = DayOrStar(descriptor)
               /\ FieldOf(compiled.value, 5) = "*"
          ELSE FieldOf(compiled.value, 3) = "*"

\* A monthly descriptor with day 15 was compiled: its third field is 15.
C16_Witness ==
    /\ Returned(compiled)
    /\ TypeSet(descriptor)
    /\ descriptor.type = "month"
    /\ Has(descriptor, "day")
    /\ descriptor.day = 15
    /\ FieldOf(compiled.value, 3) = "15"

----------------------------------------------------------------------------
(* Properties of the month activity builder *)

\* The number of calendar months from START_DATE through today, inclusive
MonthsThroughToday ==
    (today.year - START_DATE.year) * 12 + (today.month - START_DATE.month) + 1

\* C21: for every current date from January 2017 on, generateDates returns
\* exactly one interval for each calendar month from January 2017 through
\* the current month, in chronological order, none skipped or repeated,
\* every month value in 0..11.
C21_EveryMonthOnce ==
    pc = "done"
    => /\ Len(monthIntervals) = MonthsThroughToday
       /\ \A k \in 1..Len(monthIntervals) :
            monthIntervals[k].yearMonth =
              [year  |-> START_DATE.year + ((k - 1) \div 12),
               month |-> (k - 1) % 12]

\* C22: getDaysInMonth(year, month) is the number of days of that month, so
\* the end of every interval generateDates builds is the last day of the
\* month its start is the first day of.
C22_EndIsLastDayOfMonth ==
    \A k \in 1..Len(monthIntervals) :
      LET ym == monthIntervals[k].yearMonth
          iv == monthIntervals[k].interval
      IN  /\ getDaysInMonth(ym.year, ym.month) = DaysOfMonth(ym.year, ym.month)
          /\ iv.start = [year |-> ym.year, month |-> ym.month, date |-> 1]
          /\ iv.end = [year |-> ym.year, month |-> ym.month,
                       date |-> DaysOfMonth(ym.year, ym.month)]

====
